---- MODULE Spec2Model ----
(***************************************************************************)
(* A model of pnmdump (src/pnmdumpmain.c): the PGM codec, the conversion   *)
(* session TryConvertPgm and the pixel functions.  Streams are sequences   *)
(* of bytes (0..255); the C library's scanning and printing directives are *)
(* modelled by what they consume and produce.                              *)
(***************************************************************************)
EXTENDS Integers, Sequences, FiniteSets, TLC

(***************************************************************************)
(* Bytes and text.                                                         *)
(***************************************************************************)
\* isspace() in the C locale: the bytes a white-space directive consumes.
IsSpace(b) == b \in {9, 10, 11, 12, 13, 32}

IsDigit(b) == b \in 48..57

\* The digits of a negative n (computed without -n, which INT_MIN lacks).
RECURSIVE NegDigits(_)
NegDigits(n) ==
    LET d == (10 - (n % 10)) % 10
        q == (n + d) \div 10
    IN IF q = 0 THEN <<48 + d>> ELSE NegDigits(q) \o <<48 + d>>

\* The text "%i" prints for n.
RECURSIVE Dec(_)
Dec(n) ==
    IF n < 0 THEN <<45>> \o NegDigits(n)
    ELSE IF n < 10 THEN <<48 + n>>
    ELSE Dec(n \div 10) \o <<48 + (n % 10)>>

(***************************************************************************)
(* enum PgmType and its conversions.                                       *)
(***************************************************************************)
UNKNOWN == "UNKNOWN"
P2 == "P2"
P5 == "P5"
PgmType == {UNKNOWN, P2, P5}

\* The NULL pointer (a char*, a function pointer or a ScaleArgs*).
NULL == "NULL"

PgmTypeToStr(type) ==
    CASE type = P2 -> <<80, 50>>
      [] type = P5 -> <<80, 53>>
      [] OTHER -> NULL

StrToPgmType(string) ==
    IF string = <<80, 50>> THEN P2
    ELSE IF string = <<80, 53>> THEN P5
    ELSE UNKNOWN

(***************************************************************************)
(* The scanning directives of fscanf on a stream s read up to offset p.    *)
(* A directive that looks for a further byte at the end of the stream sets *)
(* the end-of-file indicator.                                              *)
(***************************************************************************)
\* A white-space directive ("\n" or " "): consumes every white-space byte.
RECURSIVE SkipSpace(_, _)
SkipSpace(s, p) ==
    IF p < Len(s) /\ IsSpace(s[p + 1]) THEN SkipSpace(s, p + 1) ELSE p

\* The offset after the longest run of bytes from p on that are not white space.
RECURSIVE SkipToken(_, _)
SkipToken(s, p) ==
    IF p < Len(s) /\ ~IsSpace(s[p + 1]) THEN SkipToken(s, p + 1) ELSE p

\* The offset after the longest run of bytes from p on that are not a newline.
RECURSIVE SkipLine(_, _)
SkipLine(s, p) ==
    IF p < Len(s) /\ s[p + 1] # 10 THEN SkipLine(s, p + 1) ELSE p

\* The value of byte b as a digit of the given base, or -1.
DigitVal(b, base) ==
    LET v == IF b \in 48..57 THEN b - 48
             ELSE IF b \in 97..102 THEN b - 87
             ELSE IF b \in 65..70 THEN b - 55
             ELSE -1
    IN IF v >= 0 /\ v < base THEN v ELSE -1

RECURSIVE SkipDigits(_, _, _)
SkipDigits(s, p, base) ==
    IF p < Len(s) /\ DigitVal(s[p + 1], base) >= 0
    THEN SkipDigits(s, p + 1, base) ELSE p

\* The number written in s from offset from+1 to offset to, in the base.
RECURSIVE DigitsValue(_, _, _, _)
DigitsValue(s, from, to, base) ==
    IF to <= from THEN 0
    ELSE DigitsValue(s, from, to - 1, base) * base + DigitVal(s[to], base)

\* The same number negated, computed without its magnitude (which INT_MIN
\* lacks).
RECURSIVE NegDigitsValue(_, _, _, _)
NegDigitsValue(s, from, to, base) ==
    IF to <= from THEN 0
    ELSE NegDigitsValue(s, from, to - 1, base) * base - DigitVal(s[to], base)

\* "%s": skips white space, then reads the bytes up to the next white space.
\* ret is 1 (assigned) or -1 (end of stream before any byte).
ScanStr(s, p) ==
    LET q == SkipSpace(s, p)
        e == SkipToken(s, q)
    IN IF q = Len(s)
       THEN [ret |-> -1, val |-> <<>>, pos |-> q, eof |-> TRUE]
       ELSE [ret |-> 1, val |-> SubSeq(s, q + 1, e), pos |-> e,
             eof |-> (e = Len(s))]

\* "%*[^\n]": reads one or more bytes that are not a newline, assigns nothing.
\* ret is 1 (matched), 0 (the next byte is a newline) or -1 (end of stream).
ScanSkipLine(s, p) ==
    LET e == SkipLine(s, p)
    IN IF p = Len(s) THEN [ret |-> -1, pos |-> p, eof |-> TRUE]
       ELSE IF e = p THEN [ret |-> 0, pos |-> p, eof |-> FALSE]
       ELSE [ret |-> 1, pos |-> e, eof |-> (e = Len(s))]

\* "%i": skips white space, then reads an optionally signed integer in the
\* form strtol accepts with base 0 (0x.. hexadecimal, 0.. octal, else
\* decimal; "0x" with no digit after it reads as 0).  ret is 1 (assigned),
\* 0 (no integer there) or -1 (end of stream).
ScanInt(s, p) ==
    LET Number(neg, hex, base, from, e) ==
            IF e = from /\ ~hex
            THEN [ret |-> 0, val |-> 0, pos |-> e, eof |-> (e = Len(s))]
            ELSE [ret |-> 1,
                  val |-> IF neg THEN NegDigitsValue(s, from, e, base)
                          ELSE DigitsValue(s, from, e, base),
                  pos |-> e, eof |-> (e = Len(s))]
        Digits(neg, hex, base, from) ==
            Number(neg, hex, base, from, SkipDigits(s, from, base))
        Prefix(neg, d) ==
            IF d + 1 < Len(s) /\ s[d + 1] = 48 /\ s[d + 2] \in {88, 120}
            THEN Digits(neg, TRUE, 16, d + 2)
            ELSE IF d < Len(s) /\ s[d + 1] = 48
            THEN Digits(neg, FALSE, 8, d)
            ELSE Digits(neg, FALSE, 10, d)
        Sign(q) ==
            IF q = Len(s)
            THEN [ret |-> -1, val |-> 0, pos |-> q, eof |-> TRUE]
            ELSE IF s[q + 1] \in {43, 45} THEN Prefix(s[q + 1] = 45, q + 1)
            ELSE Prefix(FALSE, q)
    IN Sign(SkipSpace(s, p))

(***************************************************************************)
(* double values.  A scale factor is the quotient of two decimal numbers,  *)
(* kept exactly as a fraction n/d with d >= 0; d = 0 stands for the        *)
(* results of a division by zero: +infinity (n > 0), -infinity (n < 0) and *)
(* NaN (n = 0), which compares false with everything.                      *)
(***************************************************************************)
Frac(n, d) == [n |-> n, d |-> d]

IntToDouble(i) == Frac(i, 1)

\* x / y
FDiv(x, y) ==
    LET n == x.n * y.d
        d == x.d * y.n
    IN IF d < 0 THEN Frac(-n, -d) ELSE Frac(n, d)

\* x * y
FMul(x, y) == Frac(x.n * y.n, x.d * y.d)

\* x + y and x - y (finite operands)
FAdd(x, y) == Frac(x.n * y.d + y.n * x.d, x.d * y.d)
FSub(x, y) == Frac(x.n * y.d - y.n * x.d, x.d * y.d)

IsNaN(x) == x.d = 0 /\ x.n = 0
IsFinite(x) == x.d > 0

\* x < y, x <= y for x, y finite or infinite; false when either is NaN.
FLt(x, y) ==
    /\ ~IsNaN(x) /\ ~IsNaN(y)
    /\ IF x.d > 0 /\ y.d > 0 THEN x.n * y.d < y.n * x.d
       ELSE IF x.d = 0 /\ y.d = 0 THEN x.n < 0 /\ y.n > 0
       ELSE IF x.d = 0 THEN x.n < 0
       ELSE y.n > 0
FLe(x, y) ==
    /\ ~IsNaN(x) /\ ~IsNaN(y)
    /\ IF x.d > 0 /\ y.d > 0 THEN x.n * y.d <= y.n * x.d
       ELSE IF x.d = 0 /\ y.d = 0 THEN x.n < 0 \/ y.n > 0
       ELSE IF x.d = 0 THEN x.n < 0
       ELSE y.n > 0

\* (int)x for a finite x: the fraction is dropped (rounding toward zero).
Trunc(x) ==
    IF x.n >= 0 THEN x.n \div x.d ELSE -((-x.n) \div x.d)

(***************************************************************************)
(* "%lf" of sscanf on the text t read up to offset p: an optionally signed *)
(* decimal number with an optional fraction, or a hexadecimal integer      *)
(* 0x...  (Exponents, "inf" and "nan" need letters that the texts of this  *)
(* model do not contain.)  ret is 1, 0 (no number there) or -1 (end of     *)
(* text).                                                                  *)
(***************************************************************************)
RECURSIVE Pow10(_)
Pow10(k) == IF k <= 0 THEN 1 ELSE 10 * Pow10(k - 1)

ScanDouble(t, p) ==
    LET Value(neg, n, d) == IF neg THEN Frac(-n, d) ELSE Frac(n, d)
        Number(neg, base, from, ie, fs, fe) ==
            IF (ie - from) + (fe - fs) = 0
            THEN [ret |-> 0, val |-> Frac(0, 1), pos |-> from]
            ELSE [ret |-> 1,
                  val |-> Value(neg,
                                DigitsValue(t, from, ie, base) * Pow10(fe - fs)
                                    + DigitsValue(t, fs, fe, 10),
                                Pow10(fe - fs)),
                  pos |-> fe]
        Fraction(neg, base, from, ie) ==
            IF base = 10 /\ ie < Len(t) /\ t[ie + 1] = 46
            THEN Number(neg, base, from, ie, ie + 1, SkipDigits(t, ie + 1, 10))
            ELSE Number(neg, base, from, ie, ie, ie)
        Digits(neg, base, from) ==
            Fraction(neg, base, from, SkipDigits(t, from, base))
        Prefix(neg, d) ==
            IF /\ d + 2 < Len(t) /\ t[d + 1] = 48 /\ t[d + 2] \in {88, 120}
               /\ DigitVal(t[d + 3], 16) >= 0
            THEN Digits(neg, 16, d + 2)
            ELSE Digits(neg, 10, d)
        Sign(q) ==
            IF q = Len(t) THEN [ret |-> -1, val |-> Frac(0, 1), pos |-> q]
            ELSE IF t[q + 1] \in {43, 45} THEN Prefix(t[q + 1] = 45, q + 1)
            ELSE Prefix(FALSE, q)
    IN Sign(SkipSpace(t, p))

\* A literal byte b of a format: matches exactly that byte.
ScanLit(t, p, b) ==
    IF p < Len(t) /\ t[p + 1] = b THEN [ret |-> 1, pos |-> p + 1]
    ELSE [ret |-> 0, pos |-> p]

(***************************************************************************)
(* struct PgmFile, ScaleArgs, ConversionArgs, PgmConverter and the values  *)
(* main gives them for each command.  A converter c is the record          *)
(* [iF, oF, cArgs, sArgs, data] with the fields junk and conv, the values  *)
(* undefined reads and conversions yield; the streams are kept apart.      *)
(***************************************************************************)
\* int data[512][512]: the capacity of each dimension of the raster.
Capacity == 512

PgmFile(type) == [width |-> 0, height |-> 0, maxDataValue |-> 0, type |-> type]

NEAREST_NEIGHBOR == "NEAREST_NEIGHBOR"
BILINEAR == "BILINEAR"

ScaleArgs(scale, scaleType) ==
    [scale |-> scale, scaleType |-> scaleType, isEnlarge |-> FALSE,
     hScale |-> IntToDouble(1), wScale |-> IntToDouble(1)]

ConversionArgs(getData, isSwapWidthHeight, isScale) ==
    [getData |-> getData, isSwapWidthHeight |-> isSwapWidthHeight,
     isScale |-> isScale]

\* The commands of main that convert a file, and the converter of each.
Commands ==
    {"--P2toP5", "--P5toP2", "--rotate", "--rotate90", "--scaleNn", "--scaleBl"}

MainConverter(op, scale) ==
    CASE op = "--P2toP5" ->
           [iF |-> PgmFile(P2), oF |-> PgmFile(P5),
            cArgs |-> ConversionArgs("GetData", FALSE, FALSE), sArgs |-> NULL]
      [] op = "--P5toP2" ->
           [iF |-> PgmFile(P5), oF |-> PgmFile(P2),
            cArgs |-> ConversionArgs("GetData", FALSE, FALSE), sArgs |-> NULL]
      [] op = "--rotate" ->
           [iF |-> PgmFile(UNKNOWN), oF |-> PgmFile(UNKNOWN),
            cArgs |-> ConversionArgs("GetReflectedData", TRUE, FALSE),
            sArgs |-> NULL]
      [] op = "--rotate90" ->
           [iF |-> PgmFile(UNKNOWN), oF |-> PgmFile(UNKNOWN),
            cArgs |-> ConversionArgs("GetRotated90Data", TRUE, FALSE),
            sArgs |-> NULL]
      [] op = "--scaleNn" ->
           [iF |-> PgmFile(UNKNOWN), oF |-> PgmFile(UNKNOWN),
            cArgs |-> ConversionArgs("GetScaledNnData", FALSE, TRUE),
            sArgs |-> ScaleArgs(scale, NEAREST_NEIGHBOR)]
      [] op = "--scaleBl" ->
           [iF |-> PgmFile(UNKNOWN), oF |-> PgmFile(UNKNOWN),
            cArgs |-> ConversionArgs(NULL, FALSE, TRUE),
            sArgs |-> ScaleArgs(scale, BILINEAR)]

(***************************************************************************)
(* c->data.  The array is the memory from its first cell on, addressed in  *)
(* cells: data[row][col] is the cell at row * 512 + col, whatever row and  *)
(* col are.  The memory is a function from the addresses stored to so far  *)
(* to their values; the array starts zeroed (the {} of main), and a cell   *)
(* outside the array that was never stored to holds c.junk.                *)
(***************************************************************************)
Addr(row, col) == row * Capacity + col

InArray(a) == a >= 0 /\ a < Capacity * Capacity

Cell(c, row, col) ==
    LET a == Addr(row, col)
    IN IF a \in DOMAIN c.data THEN c.data[a]
       ELSE IF InArray(a) THEN 0
       ELSE c.junk

Store(data, row, col, v) ==
    LET a == Addr(row, col)
    IN (a :> v) @@ data

(***************************************************************************)
(* Data retrieval: the pixel written at [row, col] of the output.          *)
(***************************************************************************)
GetData(c, row, col) == Cell(c, row, col)

\* GetReflectedData with the row and the column not exchanged.
GetReflectedDataUnswapped(c, row, col) == Cell(c, row, col)

GetReflectedData(c, row, col) == Cell(c, col, row)

\* GetRotated90Data with the row index taken from the output's height
\* instead of its width.
GetRotated90DataByHeight(c, row, col) == Cell(c, (c.oF.height - 1) - col, row)

GetRotated90Data(c, row, col) == Cell(c, (c.oF.width - 1) - col, row)

\* GetScaledNnData with the indices multiplied by the factors instead of
\* divided.
GetScaledNnDataByProduct(c, row, col) ==
    Cell(c, Trunc(FMul(IntToDouble(row), c.sArgs.hScale)),
            Trunc(FMul(IntToDouble(col), c.sArgs.wScale)))

GetScaledNnData(c, row, col) ==
    Cell(c, Trunc(FDiv(IntToDouble(row), c.sArgs.hScale)),
            Trunc(FDiv(IntToDouble(col), c.sArgs.wScale)))

(***************************************************************************)
(* Data processing.                                                        *)
(***************************************************************************)
ExtrapolateLinear(x1, x2) ==
    LET x0 == x1 - (x2 - x1)
    IN IF x0 > 255 THEN 255 ELSE IF x0 < 0 THEN 0 ELSE x0

LinearInterpolate(x, fx1, fx2) ==
    FAdd(FMul(fx1, FSub(IntToDouble(1), x)), FMul(fx2, x))

BilinearInterpolate(x, y, fxy11, fxy12, fxy21, fxy22) ==
    LinearInterpolate(y, LinearInterpolate(x, fxy11, fxy21),
                         LinearInterpolate(x, fxy12, fxy22))

\* The sub-expressions of GetScaledUpBlData, named:
\*   row / hScale, (int)(row / hScale) and their difference, and the same
\*   for columns; the margins (int)(hScale / 2) and (int)((hScale + 1) / 2).
RowPos(c, row) == FDiv(IntToDouble(row), c.sArgs.hScale)
ColPos(c, col) == FDiv(IntToDouble(col), c.sArgs.wScale)
BaseRow(c, row) == Trunc(RowPos(c, row))
BaseCol(c, col) == Trunc(ColPos(c, col))
FracRow(c, row) == FSub(RowPos(c, row), IntToDouble(BaseRow(c, row)))
FracCol(c, col) == FSub(ColPos(c, col), IntToDouble(BaseCol(c, col)))
HalfH(c) == Trunc(FDiv(c.sArgs.hScale, IntToDouble(2)))
HalfW(c) == Trunc(FDiv(c.sArgs.wScale, IntToDouble(2)))
HalfH1(c) == Trunc(FDiv(FAdd(c.sArgs.hScale, IntToDouble(1)), IntToDouble(2)))
HalfW1(c) == Trunc(FDiv(FAdd(c.sArgs.wScale, IntToDouble(1)), IntToDouble(2)))

\* Which of the nine cases of GetScaledUpBlData the cell [row, col] takes.
BlRegion(c, row, col) ==
    LET top == row < HalfH(c)
        bottom == row > c.oF.height - HalfH1(c)
        left == col < HalfW(c)
        right == col > c.oF.width - HalfW1(c)
    IN CASE top /\ left -> "topLeft"
         [] top /\ right -> "topRight"
         [] bottom /\ left -> "bottomLeft"
         [] bottom /\ right -> "bottomRight"
         [] top -> "top"
         [] bottom -> "bottom"
         [] left -> "left"
         [] right -> "right"
         [] OTHER -> "inner"

GetScaledUpBlData(c, row, col) ==
    LET r == BaseRow(c, row)
        k == BaseCol(c, col)
        x == FracRow(c, row)
        y == FracCol(c, col)
        D(i, j) == Cell(c, i, j)
        E(i, j) == IntToDouble(ExtrapolateLinear(D(r, k), D(i, j)))
        here == IntToDouble(D(r, k))
        region == BlRegion(c, row, col)
        row2 == row - HalfH(c)
        col2 == col - HalfW(c)
        r2 == BaseRow(c, row2)
        k2 == BaseCol(c, col2)
    IN CASE region = "topLeft" ->
              Trunc(BilinearInterpolate(x, y,
                  E(r + 1, k + 1), E(r + 1, k), E(r, k + 1), here))
         [] region = "topRight" ->
              Trunc(BilinearInterpolate(x, y,
                  E(r + 1, k), E(r + 1, k - 1), here, E(r, k - 1)))
         [] region = "bottomLeft" ->
              Trunc(BilinearInterpolate(x, y,
                  E(r, k + 1), here, E(r - 1, k + 1), E(r - 1, k)))
         [] region = "bottomRight" ->
              Trunc(BilinearInterpolate(x, y,
                  here, E(r, k - 1), E(r - 1, k), E(r - 1, k + 1)))
         [] region = "top" ->
              Trunc(LinearInterpolate(x, E(r + 1, k), here))
         [] region = "bottom" ->
              Trunc(LinearInterpolate(x, here, E(r - 1, k)))
         [] region = "left" ->
              Trunc(LinearInterpolate(y, E(r, k + 1), here))
         [] region = "right" ->
              Trunc(LinearInterpolate(y, here, E(r, k - 1)))
         [] OTHER ->
              Trunc(BilinearInterpolate(FracCol(c, col2), FracRow(c, row2),
                  IntToDouble(D(r2, k2)), IntToDouble(D(r2 + 1, k2)),
                  IntToDouble(D(r2, k2 + 1)), IntToDouble(D(r2 + 1, k2 + 1))))

\* The cells [i, j] of c->data that GetScaledUpBlData subscripts for the
\* cell [row, col].
GetScaledUpBlReads(c, row, col) ==
    LET r == BaseRow(c, row)
        k == BaseCol(c, col)
        region == BlRegion(c, row, col)
        r2 == BaseRow(c, row - HalfH(c))
        k2 == BaseCol(c, col - HalfW(c))
    IN CASE region = "topLeft" ->
              {<<r, k>>, <<r + 1, k + 1>>, <<r + 1, k>>, <<r, k + 1>>}
         [] region = "topRight" ->
              {<<r, k>>, <<r + 1, k>>, <<r + 1, k - 1>>, <<r, k - 1>>}
         [] region = "bottomLeft" ->
              {<<r, k>>, <<r, k + 1>>, <<r - 1, k + 1>>, <<r - 1, k>>}
         [] region = "bottomRight" ->
              {<<r, k>>, <<r, k - 1>>, <<r - 1, k>>, <<r - 1, k + 1>>}
         [] region = "top" -> {<<r, k>>, <<r + 1, k>>}
         [] region = "bottom" -> {<<r, k>>, <<r - 1, k>>}
         [] region = "left" -> {<<r, k>>, <<r, k + 1>>}
         [] region = "right" -> {<<r, k>>, <<r, k - 1>>}
         [] OTHER ->
              {<<r2, k2>>, <<r2 + 1, k2>>, <<r2, k2 + 1>>, <<r2 + 1, k2 + 1>>}

\* The number of turns of "for (int rs = 0; rs < x; rs++)", counted from n.
RECURSIVE LoopTurns(_, _)
LoopTurns(x, n) ==
    IF FLt(IntToDouble(n), x) THEN LoopTurns(x, n + 1) ELSE n

RECURSIVE BoxSum(_, _, _, _, _, _, _)
BoxSum(c, row, col, rows, cols, rs, cs) ==
    IF rs >= rows THEN 0
    ELSE IF cs >= cols THEN BoxSum(c, row, col, rows, cols, rs + 1, 0)
    ELSE Cell(c, Trunc(FAdd(RowPos(c, row), IntToDouble(rs))),
                 Trunc(FAdd(ColPos(c, col), IntToDouble(cs))))
         + BoxSum(c, row, col, rows, cols, rs, cs + 1)

GetScaledDownBoxData(c, row, col) ==
    LET rows == LoopTurns(FDiv(IntToDouble(1), c.sArgs.hScale), 0)
        cols == LoopTurns(FDiv(IntToDouble(1), c.sArgs.wScale), 0)
        sum == BoxSum(c, row, col, rows, cols, 0, 0)
        count == rows * cols
    IN Trunc(Frac(sum, count))

\* c->cArgs->getData(c, row, col)
CallGetData(c, row, col) ==
    CASE c.cArgs.getData = "GetData" -> GetData(c, row, col)
      [] c.cArgs.getData = "GetReflectedData" -> GetReflectedData(c, row, col)
      [] c.cArgs.getData = "GetRotated90Data" -> GetRotated90Data(c, row, col)
      [] c.cArgs.getData = "GetScaledNnData" -> GetScaledNnData(c, row, col)
      [] c.cArgs.getData = "GetScaledUpBlData" -> GetScaledUpBlData(c, row, col)
      [] c.cArgs.getData = "GetScaledDownBoxData" ->
           GetScaledDownBoxData(c, row, col)

(***************************************************************************)
(* Parsing the scale factor.                                               *)
(***************************************************************************)
\* The messages printed to stderr.
ErrCorrupted == "Corrupted input file"
ErrWrongFormat == "Input is not in format"
ErrBadScalar == "Error, bad scalar format"
ErrSameWay == "Error, width and height must be scaled in the same way"
ErrNonPositive == "Error, scalar must be a non zero positive"
ErrTooLarge == "Error, output too large, max 1920x1080"
ErrNoFile == "No such file"

\* The "%lf" that follows the literal byte b after the conversion r of a
\* format: it fails when r failed or the next byte is not b.
ScanNext(t, r, b) ==
    IF r.ret = 1 /\ ScanLit(t, r.pos, b).ret = 1
    THEN ScanDouble(t, ScanLit(t, r.pos, b).pos)
    ELSE [ret |-> 0, val |-> Frac(0, 1), pos |-> -1]

\* ParsedScale with the first form taken as soon as its "%lf" is assigned,
\* the end of the text not tested.
ParsedScalePrefix(t) ==
    IF ScanDouble(t, 0).ret = 1
    THEN [ok |-> TRUE, wScale |-> ScanDouble(t, 0).val,
          hScale |-> ScanDouble(t, 0).val]
    ELSE [ok |-> FALSE, wScale |-> IntToDouble(1), hScale |-> IntToDouble(1)]

\* The scale factors that the four sscanf calls of TryParseScalar give, tried
\* in turn: "%lf%n", "%lf/%lf%n", "%lfx%lf%n" and "%lf/%lfx%lf/%lf%n".  A
\* form is taken when each of its "%lf" was assigned and "%n" is the end of
\* the text; ok is false when the text has none of the forms.
ParsedScale(t) ==
    LET Whole(r) == r.ret = 1 /\ r.pos = Len(t)
        Taken(w, h) == [ok |-> TRUE, wScale |-> w, hScale |-> h]
        Form4(x, y, a, b) ==
            IF Whole(b) THEN Taken(FDiv(x.val, y.val), FDiv(a.val, b.val))
            ELSE [ok |-> FALSE, wScale |-> IntToDouble(1),
                  hScale |-> IntToDouble(1)]
        Form4a(x, y, a) == Form4(x, y, a, ScanNext(t, a, 47))
        Form3(x, y, z) ==
            IF Whole(z) THEN Taken(x.val, z.val)
            ELSE Form4a(x, y, ScanNext(t, y, 120))
        Form2(x, y) ==
            IF Whole(y) THEN Taken(FDiv(x.val, y.val), FDiv(x.val, y.val))
            ELSE Form3(x, y, ScanNext(t, x, 120))
        Form1(x) ==
            IF Whole(x) THEN Taken(x.val, x.val)
            ELSE Form2(x, ScanNext(t, x, 47))
    IN Form1(ScanDouble(t, 0))

\* SelectGetData with the test for the factors at most 1 made first.
SelectGetDataDownFirst(c, w, h) ==
    IF c.sArgs.scaleType = BILINEAR
    THEN IF FLe(w, IntToDouble(1)) /\ FLe(h, IntToDouble(1))
         THEN "GetScaledDownBoxData"
         ELSE IF FLe(IntToDouble(1), w) /\ FLe(IntToDouble(1), h)
         THEN "GetScaledUpBlData"
         ELSE c.cArgs.getData
    ELSE c.cArgs.getData

\* The pixel function the factors select for a bilinear request.
SelectGetData(c, w, h) ==
    IF c.sArgs.scaleType = BILINEAR
    THEN IF FLe(IntToDouble(1), w) /\ FLe(IntToDouble(1), h)
         THEN "GetScaledUpBlData"
         ELSE IF FLe(w, IntToDouble(1)) /\ FLe(h, IntToDouble(1))
         THEN "GetScaledDownBoxData"
         ELSE c.cArgs.getData
    ELSE c.cArgs.getData

\* Each function below returns [ret, err, c]: the value returned, the
\* message printed and the converter as the call leaves it.
TryParseScalar(c) ==
    LET Checked(c2, w, h) ==
            IF \/ (FLt(w, IntToDouble(1)) /\ FLt(IntToDouble(1), h))
               \/ (FLt(IntToDouble(1), w) /\ FLt(h, IntToDouble(1)))
            THEN [ret |-> FALSE, err |-> ErrSameWay, c |-> c2]
            ELSE IF FLe(w, IntToDouble(0)) \/ FLe(h, IntToDouble(0))
            THEN [ret |-> FALSE, err |-> ErrNonPositive, c |-> c2]
            ELSE [ret |-> TRUE, err |-> "", c |-> c2]
        Parsed(c1, f) ==
            IF ~f.ok
            THEN [ret |-> FALSE, err |-> ErrBadScalar, c |-> c1]
            ELSE Checked([c1 EXCEPT
                            !.sArgs.wScale = f.wScale,
                            !.sArgs.hScale = f.hScale,
                            !.cArgs.getData =
                                SelectGetData(c, f.wScale, f.hScale)],
                         f.wScale, f.hScale)
    IN Parsed([c EXCEPT !.sArgs.isEnlarge =
                            ~(Len(c.sArgs.scale) > 0 /\ c.sArgs.scale[1] = 109)],
              ParsedScale(c.sArgs.scale))

(***************************************************************************)
(* Output pgm initialization.                                              *)
(***************************************************************************)
\* "i *= x" for an int i and a double x: the product converted to int; the
\* conversion of an infinite or NaN product is undefined and yields c.conv.
ScaleInt(c, i, x) ==
    IF IsFinite(x) THEN Trunc(FMul(IntToDouble(i), x)) ELSE c.conv

TrySetPgmInfo(c) ==
    LET Capped(c2) ==
            IF c2.oF.width > 1920 \/ c2.oF.height > 1080
            THEN [ret |-> FALSE, err |-> ErrTooLarge, c |-> c2]
            ELSE [ret |-> TRUE, err |-> "", c |-> c2]
        Scaled(c1, p) ==
            IF ~p.ret THEN p
            ELSE Capped([p.c EXCEPT
                           !.oF.height =
                               ScaleInt(c, c1.oF.height, p.c.sArgs.hScale),
                           !.oF.width =
                               ScaleInt(c, c1.oF.width, p.c.sArgs.wScale)])
        Set(c1) ==
            IF ~c.cArgs.isScale THEN [ret |-> TRUE, err |-> "", c |-> c1]
            ELSE Scaled(c1, TryParseScalar(c1))
    IN Set([c EXCEPT
              !.oF.type = IF c.oF.type = UNKNOWN THEN c.iF.type
                          ELSE c.oF.type,
              !.oF.width = IF c.cArgs.isSwapWidthHeight THEN c.iF.height
                           ELSE c.iF.width,
              !.oF.height = IF c.cArgs.isSwapWidthHeight THEN c.iF.width
                            ELSE c.iF.height,
              !.oF.maxDataValue = c.iF.maxDataValue])

(***************************************************************************)
(* Reading the input pgm.  in is the input stream: [bytes, pos, eof].      *)
(***************************************************************************)
\* fscanf(stream, "%s\n%*[^\n]\n%i %i\n%i\n", typeStr, &width, &height,
\* &maxDataValue): count is the value returned, iF the file information with
\* the fields that were assigned, pos and eof the stream afterwards.
ScanPgmInfo(iF, s) ==
    LET Stopped(count, typeStr, iF1, r) ==
            [count |-> count, typeStr |-> typeStr, iF |-> iF1, pos |-> r.pos,
             eof |-> r.eof]
        Last(typeStr, iF3, e) ==
            [count |-> 4, typeStr |-> typeStr, iF |-> iF3, pos |-> e,
             eof |-> (e = Len(s))]
        MaxValue(typeStr, iF2, m) ==
            IF m.ret # 1 THEN Stopped(3, typeStr, iF2, m)
            ELSE Last(typeStr, [iF2 EXCEPT !.maxDataValue = m.val],
                      SkipSpace(s, m.pos))
        Height(typeStr, iF1, h) ==
            IF h.ret # 1 THEN Stopped(2, typeStr, iF1, h)
            ELSE MaxValue(typeStr, [iF1 EXCEPT !.height = h.val],
                          ScanInt(s, SkipSpace(s, h.pos)))
        Width(typeStr, w) ==
            IF w.ret # 1 THEN Stopped(1, typeStr, iF, w)
            ELSE Height(typeStr, [iF EXCEPT !.width = w.val],
                        ScanInt(s, SkipSpace(s, w.pos)))
        Line(typeStr, l) ==
            IF l.ret # 1 THEN Stopped(1, typeStr, iF, l)
            ELSE Width(typeStr, ScanInt(s, SkipSpace(s, l.pos)))
        Type(t) ==
            IF t.ret # 1 THEN Stopped(-1, <<>>, iF, t)
            ELSE Line(t.val, ScanSkipLine(s, SkipSpace(s, t.pos)))
    IN Type(ScanStr(s, 0))

\* TryReadPgmInfo adopting the parsed type whatever the expected one is,
\* without comparing the two.
TryReadPgmInfoUnchecked(c, in) ==
    LET Scanned(f, in1) ==
            IF 4 # f.count
            THEN [ret |-> FALSE, err |-> ErrCorrupted,
                  c |-> [c EXCEPT !.iF = f.iF], in |-> in1]
            ELSE [ret |-> TRUE, err |-> "",
                  c |-> [c EXCEPT !.iF = [f.iF EXCEPT !.type =
                                              StrToPgmType(f.typeStr)]],
                  in |-> in1]
        Read(f) == Scanned(f, [in EXCEPT !.pos = f.pos, !.eof = f.eof])
    IN Read(ScanPgmInfo(c.iF, in.bytes))

\* Returns [ret, err, c, in].
TryReadPgmInfo(c, in) ==
    LET Typed(c1, in1, imageType) ==
            IF c1.iF.type # imageType
            THEN [ret |-> FALSE, err |-> ErrWrongFormat, c |-> c1, in |-> in1]
            ELSE [ret |-> TRUE, err |-> "", c |-> c1, in |-> in1]
        Adopted(iF, imageType) ==
            IF iF.type = UNKNOWN /\ imageType # UNKNOWN
            THEN [iF EXCEPT !.type = imageType] ELSE iF
        Scanned(f, in1) ==
            IF 4 # f.count
            THEN [ret |-> FALSE, err |-> ErrCorrupted,
                  c |-> [c EXCEPT !.iF = f.iF], in |-> in1]
            ELSE Typed([c EXCEPT
                          !.iF = Adopted(f.iF, StrToPgmType(f.typeStr))],
                       in1, StrToPgmType(f.typeStr))
        Read(f) == Scanned(f, [in EXCEPT !.pos = f.pos, !.eof = f.eof])
    IN Read(ScanPgmInfo(c.iF, in.bytes))

\* fgetc(stream): the next byte, or -1 (EOF) at the end of the stream.
Fgetc(in) ==
    IF in.pos < Len(in.bytes)
    THEN [val |-> in.bytes[in.pos + 1], in |-> [in EXCEPT !.pos = @ + 1]]
    ELSE [val |-> -1, in |-> [in EXCEPT !.eof = TRUE]]

\* One turn of the inner loop of TryReadPgmData, for the k-th cell in
\* row-major order.  st is [ret, c, in, value, dataCount, stores, left]:
\* value is the local "data", stores the [row, column] indices stored to so
\* far, ret turns false at the "return false" inside the loops, and left is
\* the row whose inner loop the "break" has left (-1 when none).
ReadCell(st, k) ==
    LET Checked(st1, row, column) ==
            IF st1.in.eof THEN [st1 EXCEPT !.left = row]
            ELSE IF st1.value > st1.c.iF.maxDataValue \/ st1.value < 0
            THEN [st1 EXCEPT !.ret = FALSE, !.dataCount = @ + 1]
            ELSE [st1 EXCEPT
                    !.dataCount = @ + 1,
                    !.stores = @ \cup {<<row, column>>},
                    !.c.data = Store(@, row, column, st1.value)]
        Ascii(scanned, row, column) ==
            IF scanned.ret = 0
            THEN [st EXCEPT !.ret = FALSE, !.in.pos = scanned.pos,
                            !.in.eof = @ \/ scanned.eof]
            ELSE Checked([st EXCEPT
                            !.in.pos = scanned.pos,
                            !.in.eof = @ \/ scanned.eof,
                            !.value = IF scanned.ret = 1 THEN scanned.val
                                      ELSE @],
                         row, column)
        Binary(got, row, column) ==
            Checked([st EXCEPT !.in = got.in, !.value = got.val], row, column)
        Turn(row, column) ==
            IF ~st.ret \/ st.left = row THEN st
            ELSE IF st.c.iF.type = P2
            THEN Ascii(ScanInt(st.in.bytes, st.in.pos), row, column)
            ELSE IF st.c.iF.type = P5
            THEN Binary(Fgetc(st.in), row, column)
            ELSE Checked(st, row, column)
    IN Turn(k \div st.c.iF.width, k % st.c.iF.width)

\* The two loops of TryReadPgmData over the cells lo .. hi - 1, in order.
RECURSIVE ReadCells(_, _, _)
ReadCells(st, lo, hi) ==
    IF hi <= lo THEN st
    ELSE IF hi = lo + 1 THEN ReadCell(st, lo)
    ELSE LET mid == (lo + hi) \div 2
             half == ReadCells(st, lo, mid)
         IN IF half.ret THEN ReadCells(half, mid, hi) ELSE half

\* The number of turns of two nested loops over height rows and width
\* columns.
CellCount(width, height) ==
    IF width <= 0 \/ height <= 0 THEN 0 ELSE width * height

\* Returns [ret, err, c, in, dataCount, stores].
TryReadPgmData(c, in) ==
    LET Result(st, ret, in1) ==
            [ret |-> ret, err |-> IF ret THEN "" ELSE ErrCorrupted,
             c |-> st.c, in |-> in1, dataCount |-> st.dataCount,
             stores |-> st.stores]
        Counted(st, last) ==
            IF st.dataCount # st.c.iF.width * st.c.iF.height
            THEN Result(st, FALSE, last.in)
            ELSE Result(st, TRUE, last.in)
        Ended(st) ==
            IF ~st.ret THEN Result(st, FALSE, st.in)
            ELSE IF st.c.iF.type = P5
            THEN (IF Fgetc(st.in).val # -1
                  THEN Result(st, FALSE, Fgetc(st.in).in)
                  ELSE Counted(st, Fgetc(st.in)))
            ELSE Counted(st, [in |-> st.in])
    IN Ended(ReadCells([ret |-> TRUE, c |-> c, in |-> in, value |-> 0,
                        dataCount |-> 0, stores |-> {}, left |-> -1],
                       0, CellCount(c.iF.width, c.iF.height)))

(***************************************************************************)
(* Writing the output pgm.                                                 *)
(***************************************************************************)
\* "# Generated by pnmdump.exe"
Comment ==
    <<35, 32, 71, 101, 110, 101, 114, 97, 116, 101, 100, 32, 98, 121, 32,
      112, 110, 109, 100, 117, 109, 112, 46, 101, 120, 101>>

\* What "%s" prints for the type: its name, or "(null)" for the NULL that
\* PgmTypeToStr returns for a type that is neither P2 nor P5.
TypeText(type) ==
    IF type \in {P2, P5} THEN PgmTypeToStr(type)
    ELSE <<40, 110, 117, 108, 108, 41>>

\* The bytes WritePgmInfo prints.
WritePgmInfo(oF) ==
    TypeText(oF.type) \o <<10>> \o Comment \o <<10>>
        \o Dec(oF.width) \o <<32>> \o Dec(oF.height) \o <<10>>
        \o Dec(oF.maxDataValue) \o <<10>>

\* PixelText with "%c" printing 255 for every value above 255.
PixelTextSaturating(c, col, v) ==
    IF c.oF.type = P2
    THEN IF col = 0 THEN Dec(v)
         ELSE IF col = c.oF.width - 1 THEN <<32>> \o Dec(v) \o <<10>>
         ELSE <<32>> \o Dec(v)
    ELSE IF c.oF.type = P5 THEN <<IF v > 255 THEN 255 ELSE v % 256>>
    ELSE <<>>

\* What one turn of the inner loop of WritePgmData prints for the pixel v.
PixelText(c, col, v) ==
    IF c.oF.type = P2
    THEN IF col = 0 THEN Dec(v)
         ELSE IF col = c.oF.width - 1 THEN <<32>> \o Dec(v) \o <<10>>
         ELSE <<32>> \o Dec(v)
    ELSE IF c.oF.type = P5 THEN <<v % 256>>
    ELSE <<>>

\* The call of getData that WritePgmData makes for the k-th cell of the
\* output in row-major order, as <<row, col, the value returned>>.
WriteCall(c, k) ==
    LET row == k \div c.oF.width
        col == k % c.oF.width
    IN <<row, col, CallGetData(c, row, col)>>

\* The bytes the two loops of WritePgmData print for the cells lo .. hi - 1,
\* in order.
RECURSIVE WriteCells(_, _, _)
WriteCells(c, lo, hi) ==
    IF hi <= lo THEN <<>>
    ELSE IF hi = lo + 1
    THEN LET call == WriteCall(c, lo) IN PixelText(c, call[2], call[3])
    ELSE LET mid == (lo + hi) \div 2
         IN WriteCells(c, lo, mid) \o WriteCells(c, mid, hi)

\* Returns [bytes, calls]: the bytes printed and the calls of getData made,
\* in order.  No call is made for an output type that is neither P2 nor P5.
WritePgmData(c) ==
    LET n == IF c.oF.type \in {P2, P5}
             THEN CellCount(c.oF.width, c.oF.height) ELSE 0
    IN [bytes |-> WriteCells(c, 0, n),
        calls |-> [k \in 1..n |-> WriteCall(c, k - 1)]]

(***************************************************************************)
(* The inputs of the model: the command lines and the input files.         *)
(***************************************************************************)
\* The bounds of the model.
MaxWidth == 2
MaxHeight == 2
MaxBodyLen == 3
MaxRuns == 2

\* The sample values of the generated rasters: white-space bytes (10, 32),
\* the extremes and an ordinary value.
SampleVals == <<10, 255, 0, 32, 7>>

\* The bytes of the free-form bodies: 0x01, ' ', '-', '0', '1', '9'.
BodyBytes == {1, 32, 45, 48, 49, 57}

\* The values a read outside the array may yield.
JunkVals == {0, 999}

\* The values the conversion of an infinite or NaN double to int may yield:
\* INT_MIN, 0 and INT_MAX.
ConvVals == {-2147483647 - 1, 0, 2147483647}

\* The scale texts: 1, 2, 3, 1/2, 1/3, 5/2, 2/5, 2x3, 3x1, 1/2x1/3,
\* 2x.5, 0, -1, 2000, 2xhalf, m2, 1/2x3, the empty text, and 3x4, 1/2x3/4,
\* 2x, 1/, 1/0, 0/0, 1x.5, .5x1.
ScaleTexts ==
    { <<49>>, <<50>>, <<51>>, <<49, 47, 50>>, <<49, 47, 51>>, <<53, 47, 50>>,
      <<50, 47, 53>>, <<50, 120, 51>>, <<51, 120, 49>>,
      <<49, 47, 50, 120, 49, 47, 51>>, <<50, 120, 46, 53>>, <<48>>,
      <<45, 49>>, <<50, 48, 48, 48>>, <<50, 120, 104, 97, 108, 102>>,
      <<109, 50>>, <<49, 47, 50, 120, 51>>, <<>>,
      <<51, 120, 52>>, <<49, 47, 50, 120, 51, 47, 52>>, <<50, 120>>,
      <<49, 47>>, <<49, 47, 48>>, <<48, 47, 48>>, <<49, 120, 46, 53>>,
      <<46, 53, 120, 49>> }

\* A command line: the command and its SCALAR argument (<<>> when it has none).
PlainCmds ==
    {[op |-> o, scale |-> <<>>] :
        o \in {"--P2toP5", "--P5toP2", "--rotate", "--rotate90"}}
ScaleCmds ==
    {[op |-> o, scale |-> t] : o \in {"--scaleNn", "--scaleBl"}, t \in ScaleTexts}
IdentityCmd == [op |-> "--scaleNn", scale |-> <<49>>]

\* The sequences over A of length at most n.
RECURSIVE SeqsUpTo(_, _)
SeqsUpTo(A, n) ==
    IF n = 0 THEN {<<>>}
    ELSE LET S == SeqsUpTo(A, n - 1)
         IN S \cup {Append(x, a) : x \in {y \in S : Len(y) = n - 1}, a \in A}

\* The raster of a generated file: the sample values in turn, from the
\* seed-th on, in row-major order.
Sample(seed, w, row, col) ==
    SampleVals[((seed + row * w + col) % Len(SampleVals)) + 1]

\* A well-formed ASCII body: the samples of each row separated by a space,
\* each row ended by a newline.
RECURSIVE AsciiBody(_, _, _, _, _)
AsciiBody(seed, w, h, row, col) ==
    IF row >= h THEN <<>>
    ELSE IF col >= w THEN AsciiBody(seed, w, h, row + 1, 0)
    ELSE Dec(Sample(seed, w, row, col))
         \o (IF col = w - 1 THEN <<10>> ELSE <<32>>)
         \o AsciiBody(seed, w, h, row, col + 1)

\* A well-formed BINARY body: one byte for each sample.
RECURSIVE BinaryBody(_, _, _, _, _)
BinaryBody(seed, w, h, row, col) ==
    IF row >= h THEN <<>>
    ELSE IF col >= w THEN BinaryBody(seed, w, h, row + 1, 0)
    ELSE <<Sample(seed, w, row, col)>> \o BinaryBody(seed, w, h, row, col + 1)

Repeat(b, n) == [i \in 1..n |-> b]

\* An input file, described: the four header lines (comment = <<>> for a
\* file with no comment line) and the bytes after the maxValue line.
File(kind, magic, comment, w, h, max, seed, body) ==
    [kind |-> kind, magic |-> magic, comment |-> comment, width |-> w,
     height |-> h, maxValue |-> max, seed |-> seed, body |-> body]

\* The bytes of the file.
FileBytes(f) ==
    f.magic \o <<10>>
        \o (IF f.comment = <<>> THEN <<>> ELSE f.comment \o <<10>>)
        \o Dec(f.width) \o <<32>> \o Dec(f.height) \o <<10>>
        \o Dec(f.maxValue) \o <<10>> \o f.body

Seeds == 0..(Len(SampleVals) - 1)

\* Well-formed files of each encoding, for every raster of the bounds.
AsciiFiles ==
    {File("ascii", <<80, 50>>, <<35>>, w, h, 255, s, AsciiBody(s, w, h, 0, 0)) :
        w \in 1..MaxWidth, h \in 1..MaxHeight, s \in Seeds}
BinaryFiles ==
    {File("binary", <<80, 53>>, <<35>>, w, h, 255, s, BinaryBody(s, w, h, 0, 0)) :
        w \in 1..MaxWidth, h \in 1..MaxHeight, s \in Seeds}

\* Files of either encoding with an arbitrary short body.
FuzzFiles ==
    {File("fuzz", m, <<35>>, d[1], d[2], x, 0, b) :
        m \in {<<80, 50>>, <<80, 53>>},
        d \in {<<1, 1>>, <<2, 1>>, <<1, 2>>},
        x \in {1, 49},
        b \in SeqsUpTo(BodyBytes, MaxBodyLen)}

\* Files with another magic, no comment line, or degenerate dimensions.
OddFiles ==
    {File("odd", m, k, d[1], d[2], 49, 0, b) :
        m \in {<<80, 50>>, <<80, 53>>, <<80, 51>>, <<80>>, <<80, 50, 53>>},
        k \in {<<35>>, <<>>},
        d \in {<<1, 1>>, <<0, 1>>, <<2, 0>>, <<-1, -1>>},
        b \in {<<>>, <<49>>, <<49, 32>>, <<49, 49>>}}

\* Square rasters of distinct samples, large enough to hold whole blocks of
\* two and of three cells a side: the sample at [row, col] is
\* 10 * row + col + 1.
GridSizes == {3, 4, 5}

GridSample(row, col) == 10 * row + col + 1

RECURSIVE GridBody(_, _, _)
GridBody(n, row, col) ==
    IF row >= n THEN <<>>
    ELSE IF col >= n THEN GridBody(n, row + 1, 0)
    ELSE Dec(GridSample(row, col))
         \o (IF col = n - 1 THEN <<10>> ELSE <<32>>)
         \o GridBody(n, row, col + 1)

GridFiles ==
    {File("grid", <<80, 50>>, <<35>>, n, n, 255, 0, GridBody(n, 0, 0)) :
        n \in GridSizes}

\* Files whose samples do not fit in a byte: a row of 300 and 256 under the
\* maxValue 1000, and its first cell alone.
DeepVals == <<300, 256>>

DeepFiles ==
    {File("deep", <<80, 50>>, <<35>>, w, 1, 1000, 0,
          IF w = 1 THEN Dec(DeepVals[1]) \o <<10>>
          ELSE Dec(DeepVals[1]) \o <<32>> \o Dec(DeepVals[2]) \o <<10>>) :
        w \in 1..2}

\* Files as wide or as tall as the raster's capacity, and one cell more.
WideFiles ==
    {File("wide", <<80, 53>>, <<35>>, d[1], d[2], 255, 0, Repeat(65, d[1] * d[2])) :
        d \in {<<Capacity, 1>>, <<Capacity + 1, 1>>, <<1, Capacity + 1>>}}

\* The first run of a session: a command line and an input file, or no
\* input file at all.
NoFile == File("missing", <<>>, <<>>, 0, 0, 0, 0, <<>>)

FirstRuns ==
    ((PlainCmds \cup ScaleCmds) \X (AsciiFiles \cup BinaryFiles \cup GridFiles))
    \cup ((PlainCmds \cup {IdentityCmd}) \X (FuzzFiles \cup OddFiles))
    \cup (PlainCmds \X (WideFiles \cup DeepFiles))
    \cup ({[op |-> "--rotate", scale |-> <<>>]} \X {NoFile})

\* The commands run on the output of a run.
NextCmds ==
    {[op |-> o, scale |-> <<>>] : o \in {"--P2toP5", "--P5toP2"}}

(***************************************************************************)
(* The state: a session of runs of the program, each run on the file the   *)
(* run before it wrote.                                                    *)
(***************************************************************************)
VARIABLES
    run,        \* the number of this run in the session
    cmd,        \* the command line of this run
    given,      \* the description of the first run's input file
    pc,         \* where TryConvertPgm is: the call it makes next
    c,          \* the PgmConverter
    in,         \* the input stream: [bytes, pos, eof]
    out,        \* the bytes written to the output stream
    err,        \* the message printed to stderr, "" if none
    result,     \* "" while the run lasts, then "success", "failure" or "crash"
    done,       \* the calls of TryConvertPgm that have returned true
    dataCount,  \* the samples TryReadPgmData counted
    stores,     \* the [row, column] indices TryReadPgmData stored to
    calls,      \* the calls of getData by WritePgmData, in order
    hist        \* the runs before this one: what each decoded and wrote

vars ==
    <<run, cmd, given, pc, c, in, out, err, result, done, dataCount, stores,
      calls, hist>>

NoData == [a \in {} |-> 0]

Converter(line) ==
    LET m == MainConverter(line.op, line.scale)
    IN [iF |-> m.iF, oF |-> m.oF, cArgs |-> m.cArgs, sArgs |-> m.sArgs,
        data |-> NoData, junk |-> 0, conv |-> 0]

\* The converter as the state keeps it: junk and conv are chosen anew by
\* each call that needs them.
Kept(cc) == [cc EXCEPT !.junk = 0, !.conv = 0]

Init ==
    \E first \in FirstRuns :
        /\ run = 1
        /\ cmd = first[1]
        /\ given = first[2]
        /\ pc = "TryOpenStreams"
        /\ c = Converter(first[1])
        /\ in = [bytes |-> FileBytes(first[2]), pos |-> 0, eof |-> FALSE]
        /\ out = <<>>
        /\ err = ""
        /\ result = ""
        /\ done = {}
        /\ dataCount = 0
        /\ stores = {}
        /\ calls = <<>>
        /\ hist = <<>>

\* The step of TryConvertPgm when the value a call returned is not tested.
StepUnchecked(ret, name, next) ==
    /\ pc' = next
    /\ done' = IF ret THEN done \cup {name} ELSE done

\* The step of TryConvertPgm after a call that returned ret.
Step(ret, name, next) ==
    /\ pc' = IF ret THEN next ELSE "CloseStreams"
    /\ done' = IF ret THEN done \cup {name} ELSE done

\* TryOpenStreams: fails when the input file does not exist; otherwise the
\* output file is opened, which empties it.
OpenStreams ==
    /\ pc = "TryOpenStreams"
    /\ LET missing == run = 1 /\ given.kind = "missing"
       IN /\ Step(~missing, "TryOpenStreams", "TryReadPgmInfo")
          /\ err' = IF missing THEN ErrNoFile ELSE ""
          /\ out' = <<>>
    /\ UNCHANGED <<run, cmd, given, c, in, result, dataCount, stores, calls, hist>>

ReadPgmInfo ==
    /\ pc = "TryReadPgmInfo"
    /\ LET r == TryReadPgmInfo(c, in)
       IN /\ Step(r.ret, "TryReadPgmInfo", "TryReadPgmData")
          /\ c' = r.c
          /\ in' = r.in
          /\ err' = r.err
    /\ UNCHANGED <<run, cmd, given, out, result, dataCount, stores, calls, hist>>

\* A store to an index outside [0, 512) is undefined: the run either
\* crashes or goes on with the store made at the cell's address.
OutOfRange(ix) ==
    \E x \in ix : x[1] < 0 \/ x[1] >= Capacity \/ x[2] < 0 \/ x[2] >= Capacity

ReadPgmData ==
    /\ pc = "TryReadPgmData"
    /\ LET r == TryReadPgmData(c, in)
       IN \E crash \in (IF OutOfRange(r.stores) THEN {TRUE, FALSE} ELSE {FALSE}) :
            /\ IF crash
               THEN pc' = "exit" /\ result' = "crash" /\ done' = done
               ELSE Step(r.ret, "TryReadPgmData", "TrySetPgmInfo")
                    /\ result' = result
            /\ c' = r.c
            /\ in' = r.in
            /\ err' = r.err
            /\ dataCount' = r.dataCount
            /\ stores' = r.stores
    /\ UNCHANGED <<run, cmd, given, out, calls, hist>>

SetPgmInfo ==
    /\ pc = "TrySetPgmInfo"
    /\ \E v \in ConvVals :
         LET r == TrySetPgmInfo([c EXCEPT !.conv = v])
         IN /\ Step(r.ret, "TrySetPgmInfo", "WritePgmInfo")
            /\ c' = Kept(r.c)
            /\ err' = r.err
    /\ UNCHANGED <<run, cmd, given, in, out, result, dataCount, stores, calls, hist>>

\* WritePgmInfo.  Printing the NULL that PgmTypeToStr returns for a type
\* that is neither P2 nor P5 is undefined: the run crashes or "(null)" is
\* printed.
WriteInfo ==
    /\ pc = "WritePgmInfo"
    /\ \E crash \in (IF c.oF.type \in {P2, P5} THEN {FALSE} ELSE {TRUE, FALSE}) :
         IF crash
         THEN pc' = "exit" /\ result' = "crash" /\ out' = out
         ELSE pc' = "WritePgmData" /\ result' = result
              /\ out' = out \o WritePgmInfo(c.oF)
    /\ done' = done \cup {"WritePgmInfo"}
    /\ UNCHANGED <<run, cmd, given, c, in, err, dataCount, stores, calls, hist>>

\* WritePgmData.  Calling a NULL getData crashes the run.
WriteData ==
    /\ pc = "WritePgmData"
    /\ LET pixels == c.oF.type \in {P2, P5} /\ c.oF.height > 0 /\ c.oF.width > 0
       IN IF pixels /\ c.cArgs.getData = NULL
          THEN pc' = "exit" /\ result' = "crash" /\ out' = out /\ calls' = calls
          ELSE \E u \in JunkVals :
                 LET w == WritePgmData([c EXCEPT !.junk = u])
                 IN /\ pc' = "CloseStreams"
                    /\ result' = result
                    /\ out' = out \o w.bytes
                    /\ calls' = w.calls
    /\ done' = done \cup {"WritePgmData"}
    /\ UNCHANGED <<run, cmd, given, c, in, err, dataCount, stores, hist>>

\* CloseStreams, and the return of TryConvertPgm and of main.  Closing the
\* streams that TryOpenStreams did not open is undefined: the run crashes
\* or returns.
CloseStreams ==
    /\ pc = "CloseStreams"
    /\ \E crash \in (IF "TryOpenStreams" \in done THEN {FALSE} ELSE {TRUE, FALSE}) :
         result' = IF crash THEN "crash"
                   ELSE IF "WritePgmData" \in done THEN "success"
                   ELSE "failure"
    /\ pc' = "exit"
    /\ UNCHANGED <<run, cmd, given, c, in, out, err, done, dataCount, stores,
                   calls, hist>>

\* What a finished run leaves in hist.
Record ==
    [cmd |-> cmd, result |-> result, decoded |-> "TryReadPgmData" \in done,
     iF |-> c.iF, oF |-> c.oF, data |-> c.data, out |-> out, calls |-> calls]

\* The next run of the session: a command run on the file the last run wrote.
\* The files of WideFiles are converted once, and an output whose header
\* holds a negative size is converted no further.
NextRun ==
    /\ pc = "exit"
    /\ result = "success"
    /\ run < MaxRuns
    /\ given.kind # "wide"
    /\ c.oF.width >= 0
    /\ c.oF.height >= 0
    /\ \E line \in NextCmds :
         /\ cmd' = line
         /\ c' = Converter(line)
    /\ run' = run + 1
    /\ pc' = "TryOpenStreams"
    /\ in' = [bytes |-> out, pos |-> 0, eof |-> FALSE]
    /\ out' = <<>>
    /\ err' = ""
    /\ result' = ""
    /\ done' = {}
    /\ dataCount' = 0
    /\ stores' = {}
    /\ calls' = <<>>
    /\ hist' = Append(hist, Record)
    /\ UNCHANGED given

Next ==
    \/ OpenStreams
    \/ ReadPgmInfo
    \/ ReadPgmData
    \/ SetPgmInfo
    \/ WriteInfo
    \/ WriteData
    \/ CloseStreams
    \/ NextRun

Spec == Init /\ [][Next]_vars

(***************************************************************************)
(* The properties checked.                                                 *)
(***************************************************************************)
\* The magics of the two encodings.
MagicP2 == <<80, 50>>
MagicP5 == <<80, 53>>

\* The first run has decoded, or failed to decode, the body of its input.
BodyDecoded ==
    /\ run = 1
    /\ "TryReadPgmInfo" \in done
    /\ pc # "TryReadPgmData"

\* The white-space-delimited tokens of an ASCII body from offset p on.
RECURSIVE Tokens(_, _)
Tokens(s, p) ==
    IF SkipSpace(s, p) = Len(s) THEN <<>>
    ELSE <<SubSeq(s, SkipSpace(s, p) + 1, SkipToken(s, SkipSpace(s, p)))>>
             \o Tokens(s, SkipToken(s, SkipSpace(s, p)))

\* A token that is a decimal integer, and its value.
IsDecimal(tok) ==
    IF tok[1] = 45
    THEN Len(tok) > 1 /\ \A i \in 2..Len(tok) : IsDigit(tok[i])
    ELSE \A i \in 1..Len(tok) : IsDigit(tok[i])
DecimalValue(tok) ==
    IF tok[1] = 45 THEN -DigitsValue(tok, 1, Len(tok), 10)
    ELSE DigitsValue(tok, 0, Len(tok), 10)

\* The number of samples the body of the file f supplies: its tokens for
\* ASCII, its bytes for BINARY.
SampleCount(f) ==
    IF f.magic = MagicP2 THEN Len(Tokens(f.body, 0)) ELSE Len(f.body)

\* One of the first width*height samples of the body of the file f is
\* outside [0, maxValue].
HasSampleOutOfRange(f) ==
    IF f.magic = MagicP2
    THEN \E k \in 1..Len(Tokens(f.body, 0)) :
            /\ k <= f.width * f.height
            /\ IsDecimal(Tokens(f.body, 0)[k])
            /\ DecimalValue(Tokens(f.body, 0)[k]) \notin 0..f.maxValue
    ELSE \E k \in 1..Len(f.body) :
            /\ k <= f.width * f.height
            /\ f.body[k] \notin 0..f.maxValue

\* C1: a well-formed ASCII input that is decoded and encoded unchanged as
\* ASCII (run 1, the scale 1 that maps every cell to itself) is decoded
\* again by the next run, with the same width, height and maxValue and
\* the same sample at every cell, whatever the width (1 included).
AsciiRoundTrip ==
    (/\ run = 2
     /\ pc = "exit"
     /\ given.kind = "ascii"
     /\ hist[1].cmd = IdentityCmd
     /\ cmd.op = "--P2toP5")
    => /\ "TryReadPgmData" \in done
       /\ c.iF.width = given.width
       /\ c.iF.height = given.height
       /\ c.iF.maxDataValue = given.maxValue
       /\ \A row \in 0..(given.height - 1), col \in 0..(given.width - 1) :
            Cell(c, row, col) = Sample(given.seed, given.width, row, col)

\* C2: a well-formed ASCII input with samples in [0, 255], white-space
\* byte values included, that is decoded as ASCII and encoded as BINARY
\* (run 1), then decoded as BINARY and encoded as ASCII (run 2), succeeds
\* at every step, and the samples encoded last are the original ones in
\* the original order.
CrossRoundTrip ==
    (/\ run = 2
     /\ pc = "exit"
     /\ given.kind = "ascii"
     /\ hist[1].cmd.op = "--P2toP5"
     /\ cmd.op = "--P5toP2")
    => /\ result = "success"
       /\ Len(calls) = given.width * given.height
       /\ \A k \in 1..Len(calls) :
            calls[k][3] = Sample(given.seed, given.width,
                                 (k - 1) \div given.width,
                                 (k - 1) % given.width)

\* C3: in every run, a byte is in the output stream only after
\* TryReadPgmInfo, TryReadPgmData and TrySetPgmInfo have all returned
\* true, and a run that failed has written no byte.
NoOutputBeforeDerivation ==
    /\ out # <<>> =>
         {"TryReadPgmInfo", "TryReadPgmData", "TrySetPgmInfo"} \subseteq done
    /\ result = "failure" => out = <<>>

\* A run fails in the derivation of the output descriptor, after the whole
\* raster is decoded, and has written nothing.
FailedDerivation ==
    /\ result = "failure"
    /\ err = ErrTooLarge
    /\ {"TryReadPgmInfo", "TryReadPgmData"} \subseteq done
    /\ out = <<>>

\* C4: for both encodings, the decoding of a body with a sample below 0 or
\* above maxValue fails with the corrupted-input error; and whenever the
\* decoding succeeds, every cell of the raster in [0, height) x [0, width)
\* holds a value in [0, maxValue].
SamplesInRange ==
    /\ (/\ BodyDecoded
        /\ given.kind \in {"ascii", "binary", "fuzz"}
        /\ HasSampleOutOfRange(given))
       => ("TryReadPgmData" \notin done /\ err = ErrCorrupted)
    /\ "TryReadPgmData" \in done
       => \A row \in 0..(c.iF.height - 1), col \in 0..(c.iF.width - 1) :
            Cell(c, row, col) \in 0..c.iF.maxDataValue

\* C5: for every expected encoding, none included, a run on an input whose
\* magic is neither "P2" nor "P5" does not decode it, does not succeed and
\* writes no output.
MagicRequired ==
    (/\ run = 1
     /\ given.kind = "odd"
     /\ given.magic \notin {MagicP2, MagicP5})
    => /\ "TryReadPgmData" \notin done
       /\ result # "success"
       /\ out = <<>>

\* C6: once TryReadPgmInfo has parsed its four header items: with no
\* expected encoding (the input type UNKNOWN) the input type is the one
\* parsed from the magic; with an expected encoding that differs from the
\* parsed one the run fails with the wrong-format error, and the body is
\* never read: the stream stays where the header ended, no sample is
\* counted or stored and nothing is written.
EncodingSelection ==
    (/\ "TryOpenStreams" \in done
     /\ pc # "TryReadPgmInfo"
     /\ ScanPgmInfo(PgmFile(UNKNOWN), in.bytes).count = 4)
    => IF cmd.op \in {"--P2toP5", "--P5toP2"}
       THEN StrToPgmType(ScanPgmInfo(PgmFile(UNKNOWN), in.bytes).typeStr)
                # MainConverter(cmd.op, cmd.scale).iF.type
            => /\ err = ErrWrongFormat
               /\ "TryReadPgmInfo" \notin done
               /\ "TryReadPgmData" \notin done
               /\ in.pos = ScanPgmInfo(PgmFile(UNKNOWN), in.bytes).pos
               /\ dataCount = 0
               /\ stores = {}
               /\ out = <<>>
               /\ result \in {"", "failure"}
       ELSE c.iF.type =
                StrToPgmType(ScanPgmInfo(PgmFile(UNKNOWN), in.bytes).typeStr)

\* A run that expects BINARY and is given a well-formed ASCII file has
\* ended with the wrong-format error.
WrongFormatRun ==
    /\ pc = "exit"
    /\ cmd.op = "--P5toP2"
    /\ given.kind = "ascii"
    /\ run = 1
    /\ err = ErrWrongFormat
    /\ in.pos > 0

\* C7: the decoding of a BINARY input that holds more than width*height
\* bytes after the maxValue line never succeeds, whatever the bytes are.
TrailingBytesRejected ==
    (/\ run = 1
     /\ given.magic = MagicP5
     /\ given.kind # "missing"
     /\ given.width >= 1
     /\ given.height >= 1
     /\ Len(given.body) > given.width * given.height)
    => "TryReadPgmData" \notin done

\* C8: for either encoding, with width >= 1 and height >= 1, the decoding
\* of a body that supplies fewer than width*height samples (tokens for
\* ASCII, bytes for BINARY) fails with the corrupted-input error, and no
\* output is written.
FewerSamplesRejected ==
    (/\ BodyDecoded
     /\ given.kind = "fuzz"
     /\ given.width >= 1
     /\ given.height >= 1
     /\ SampleCount(given) < given.width * given.height)
    => /\ "TryReadPgmData" \notin done
       /\ err = ErrCorrupted
       /\ out = <<>>

\* C9: no run stores a sample at a row or column index outside [0, 512),
\* and an input whose header declares a width or a height above 512 is
\* rejected before any cell is stored.
CapacityChecked ==
    /\ \A x \in stores :
         x[1] \in 0..(Capacity - 1) /\ x[2] \in 0..(Capacity - 1)
    /\ (/\ run = 1
        /\ given.kind # "missing"
        /\ (given.width > Capacity \/ given.height > Capacity))
       => ("TryReadPgmData" \notin done /\ stores = {})

\* C10: under --rotate90, the output descriptor has the width of the
\* input's height and the height of the input's width, and WritePgmData
\* writes, for each cell [row, col] of the output in row-major order, the
\* sample decoded at [width' - 1 - col, row], an index of the input raster.
Rotate90Mapping ==
    /\ (cmd.op = "--rotate90" /\ "TrySetPgmInfo" \in done)
       => (c.oF.width = c.iF.height /\ c.oF.height = c.iF.width)
    /\ (cmd.op = "--rotate90" /\ "WritePgmData" \in done
        /\ c.oF.type \in {P2, P5})
       => /\ Len(calls) = CellCount(c.oF.width, c.oF.height)
          /\ \A k \in 1..Len(calls) :
               /\ calls[k][1] = (k - 1) \div c.oF.width
               /\ calls[k][2] = (k - 1) % c.oF.width
               /\ (c.oF.width - 1) - calls[k][2] \in 0..(c.iF.height - 1)
               /\ calls[k][1] \in 0..(c.iF.width - 1)
               /\ <<(c.oF.width - 1) - calls[k][2], calls[k][1]>> \in stores
               /\ calls[k][3] =
                    c.data[Addr((c.oF.width - 1) - calls[k][2], calls[k][1])]

\* A 2 x 1 raster of two different samples has been written rotated.
RotatedRaster ==
    /\ cmd.op = "--rotate90"
    /\ "WritePgmData" \in done
    /\ c.iF.width = 2
    /\ c.iF.height = 1
    /\ c.oF.type = P2
    /\ Len(calls) = 2
    /\ calls[1][3] # calls[2][3]

\* C11: under --rotate, the output descriptor has the width of the input's
\* height and the height of the input's width, and WritePgmData writes, for
\* each cell [row, col] of the output in row-major order, the sample decoded
\* at [col, row], an index of the input raster.
TransposeMapping ==
    /\ (cmd.op = "--rotate" /\ "TrySetPgmInfo" \in done)
       => (c.oF.width = c.iF.height /\ c.oF.height = c.iF.width)
    /\ (cmd.op = "--rotate" /\ "WritePgmData" \in done
        /\ c.oF.type \in {P2, P5})
       => /\ Len(calls) = CellCount(c.oF.width, c.oF.height)
          /\ \A k \in 1..Len(calls) :
               /\ calls[k][1] = (k - 1) \div c.oF.width
               /\ calls[k][2] = (k - 1) % c.oF.width
               /\ calls[k][2] \in 0..(c.iF.height - 1)
               /\ calls[k][1] \in 0..(c.iF.width - 1)
               /\ <<calls[k][2], calls[k][1]>> \in stores
               /\ calls[k][3] = c.data[Addr(calls[k][2], calls[k][1])]

\* A 2 x 1 raster of two different samples has been written transposed.
TransposedRaster ==
    /\ cmd.op = "--rotate"
    /\ "WritePgmData" \in done
    /\ c.iF.width = 2
    /\ c.iF.height = 1
    /\ c.oF.type = P5
    /\ Len(calls) = 2
    /\ calls[1][3] # calls[2][3]

\* The sum of the samples of the block of rows x cols cells whose top-left
\* cell is [r0, c0], the cells counted from k in row-major order.
RECURSIVE BlockTotal(_, _, _, _, _, _)
BlockTotal(cc, r0, c0, rows, cols, k) ==
    IF k >= rows * cols THEN 0
    ELSE Cell(cc, r0 + (k \div cols), c0 + (k % cols))
         + BlockTotal(cc, r0, c0, rows, cols, k + 1)

\* The average that the box filter is to give for the output cell
\* [row, col]: that of the block of floor(1 / hScale) x floor(1 / wScale)
\* samples from [floor(row / hScale), floor(col / wScale)] on.
BlockAverage(cc, row, col) ==
    LET rows == Trunc(FDiv(IntToDouble(1), cc.sArgs.hScale))
        cols == Trunc(FDiv(IntToDouble(1), cc.sArgs.wScale))
    IN BlockTotal(cc, BaseRow(cc, row), BaseCol(cc, col), rows, cols, 0)
           \div (rows * cols)

\* A run of the box filter on a well-formed file has written its data.
BoxDownWritten ==
    /\ run = 1
    /\ given.kind \in {"ascii", "binary", "grid"}
    /\ cmd.op = "--scaleBl"
    /\ c.cArgs.getData = "GetScaledDownBoxData"
    /\ "WritePgmData" \in done

\* C12: when the box filter is selected (both factors at most 1), each
\* output cell [row, col] is the truncated average of the block of
\* floor(1 / hScale) x floor(1 / wScale) samples whose top-left cell is
\* [floor(row / hScale), floor(col / wScale)].
BoxDownAverage ==
    BoxDownWritten
    => \A k \in 1..Len(calls) :
         calls[k][3] = BlockAverage(c, calls[k][1], calls[k][2])

\* C13: under --scaleNn with finite factors, the output descriptor has the
\* width trunc(W * wScale) and the height trunc(H * hScale), and
\* WritePgmData writes, for each cell [row, col] of the output in row-major
\* order, the sample decoded at [floor(row / hScale), floor(col / wScale)],
\* an index of the input raster.
ScaleNearestMapping ==
    /\ (/\ cmd.op = "--scaleNn"
        /\ "TrySetPgmInfo" \in done
        /\ IsFinite(c.sArgs.wScale)
        /\ IsFinite(c.sArgs.hScale))
       => /\ c.oF.width = Trunc(FMul(IntToDouble(c.iF.width), c.sArgs.wScale))
          /\ c.oF.height =
                 Trunc(FMul(IntToDouble(c.iF.height), c.sArgs.hScale))
    /\ (cmd.op = "--scaleNn" /\ "WritePgmData" \in done
        /\ c.oF.type \in {P2, P5})
       => /\ Len(calls) = CellCount(c.oF.width, c.oF.height)
          /\ \A k \in 1..Len(calls) :
               LET row == Trunc(FDiv(IntToDouble(calls[k][1]), c.sArgs.hScale))
                   col == Trunc(FDiv(IntToDouble(calls[k][2]), c.sArgs.wScale))
               IN /\ calls[k][1] = (k - 1) \div c.oF.width
                  /\ calls[k][2] = (k - 1) % c.oF.width
                  /\ row \in 0..(c.iF.height - 1)
                  /\ col \in 0..(c.iF.width - 1)
                  /\ <<row, col>> \in stores
                  /\ calls[k][3] = c.data[Addr(row, col)]

\* A 2 x 2 raster has been written at twice its size: a 4 x 4 grid whose
\* first two rows begin with a block of the first sample followed by a block
\* of the second, a different one.
NearestDoubled ==
    /\ cmd.op = "--scaleNn"
    /\ cmd.scale = <<50>>
    /\ "WritePgmData" \in done
    /\ c.iF.width = 2
    /\ c.iF.height = 2
    /\ c.oF.width = 4
    /\ c.oF.height = 4
    /\ Len(calls) = 16
    /\ \A k \in {1, 2, 5, 6} : calls[k][3] = c.data[Addr(0, 0)]
    /\ \A k \in {3, 4, 7, 8} : calls[k][3] = c.data[Addr(0, 1)]
    /\ c.data[Addr(0, 0)] # c.data[Addr(0, 1)]

\* The pieces of the text t that the byte b separates.
RECURSIVE Split(_, _)
Split(t, b) ==
    IF \E i \in 1..Len(t) : t[i] = b
    THEN LET i == CHOOSE j \in 1..Len(t) :
                      t[j] = b /\ \A m \in 1..(j - 1) : t[m] # b
         IN <<SubSeq(t, 1, i - 1)>> \o Split(SubSeq(t, i + 1, Len(t)), b)
    ELSE <<t>>

\* The text u without its sign.
Unsigned(u) ==
    IF Len(u) > 0 /\ u[1] \in {43, 45} THEN SubSeq(u, 2, Len(u)) ELSE u

\* u is a number: an optional sign, then digits with at most one point
\* among them and at least one digit.
IsNumberText(u) ==
    LET v == Unsigned(u)
    IN /\ \A i \in 1..Len(v) : IsDigit(v[i]) \/ v[i] = 46
       /\ Cardinality({i \in 1..Len(v) : v[i] = 46}) <= 1
       /\ \E i \in 1..Len(v) : IsDigit(v[i])

\* The value of the number u.
NumberValue(u) ==
    LET v == Unsigned(u)
        parts == Split(v, 46)
        whole == parts[1]
        frac == IF Len(parts) > 1 THEN parts[2] ELSE <<>>
        n == DigitsValue(whole, 0, Len(whole), 10) * Pow10(Len(frac))
                 + DigitsValue(frac, 0, Len(frac), 10)
    IN Frac(IF Len(u) > 0 /\ u[1] = 45 THEN -n ELSE n, Pow10(Len(frac)))

\* The factors the grammar gives the text t: n, n/n, nxn or n/nxn/n, the
\* width factor before the x; ok is false when t has none of the forms.
GrammarScale(t) ==
    LET sides == Split(t, 120)
        Terms(i) == Split(sides[i], 47)
        Ratio(i) ==
            IF Len(Terms(i)) = 1 THEN NumberValue(Terms(i)[1])
            ELSE FDiv(NumberValue(Terms(i)[1]), NumberValue(Terms(i)[2]))
        formed ==
            /\ Len(sides) \in {1, 2}
            /\ \A i \in 1..Len(sides) :
                 /\ Len(Terms(i)) = Len(Terms(1))
                 /\ Len(Terms(i)) \in {1, 2}
                 /\ \A j \in 1..Len(Terms(i)) : IsNumberText(Terms(i)[j])
    IN IF formed
       THEN [ok |-> TRUE, wScale |-> Ratio(1), hScale |-> Ratio(Len(sides))]
       ELSE [ok |-> FALSE, wScale |-> IntToDouble(1), hScale |-> IntToDouble(1)]

\* x and y are the same number.
SameFactor(x, y) ==
    IF x.d = 0 \/ y.d = 0 THEN x = y ELSE x.n * y.d = y.n * x.d

\* A scale run has decoded its input and made its call of TrySetPgmInfo.
ScaleParsed ==
    /\ cmd.op \in {"--scaleNn", "--scaleBl"}
    /\ "TryReadPgmData" \in done
    /\ pc # "TrySetPgmInfo"

\* C14: a scale text is accepted exactly when the whole of it has one of
\* the forms n, n/n, nxn, n/nxn/n, and then the factors are (n, n),
\* (a/b, a/b), width a and height b, or width a/b and height c/d; any other
\* text gives the bad-scalar-format error.
ScaleGrammar ==
    ScaleParsed
    => /\ (err = ErrBadScalar) <=> ~GrammarScale(cmd.scale).ok
       /\ GrammarScale(cmd.scale).ok
          => /\ SameFactor(c.sArgs.wScale, GrammarScale(cmd.scale).wScale)
             /\ SameFactor(c.sArgs.hScale, GrammarScale(cmd.scale).hScale)

\* The text 1/2x3/4 has been parsed: the width factor 1/2, the height
\* factor 3/4.
TwoRatiosParsed ==
    /\ ScaleParsed
    /\ cmd.scale = <<49, 47, 50, 120, 51, 47, 52>>
    /\ "TrySetPgmInfo" \in done
    /\ SameFactor(c.sArgs.wScale, Frac(1, 2))
    /\ SameFactor(c.sArgs.hScale, Frac(3, 4))

\* x is strictly positive; w and h lie on the same side of 1.
Positive(x) == FLt(IntToDouble(0), x)

SameSide(w, h) ==
    \/ (FLe(IntToDouble(1), w) /\ FLe(IntToDouble(1), h))
    \/ (FLe(w, IntToDouble(1)) /\ FLe(h, IntToDouble(1)))

\* C15: a scale run gets past the validation of its factors only if both
\* are strictly positive and on the same side of 1; a text of the grammar
\* with a factor that is not, or with factors on either side of 1, makes
\* the run fail with the message of one of the two range checks, and
\* nothing is written.
ScaleValidated ==
    /\ (cmd.op \in {"--scaleNn", "--scaleBl"} /\ "TrySetPgmInfo" \in done)
       => /\ Positive(c.sArgs.wScale)
          /\ Positive(c.sArgs.hScale)
          /\ SameSide(c.sArgs.wScale, c.sArgs.hScale)
    /\ (/\ ScaleParsed
        /\ GrammarScale(cmd.scale).ok
        /\ ~(/\ Positive(c.sArgs.wScale)
             /\ Positive(c.sArgs.hScale)
             /\ SameSide(c.sArgs.wScale, c.sArgs.hScale)))
       => /\ err \in {ErrSameWay, ErrNonPositive}
          /\ "TrySetPgmInfo" \notin done
          /\ out = <<>>
          /\ result \in {"", "failure"}

\* The input's size i scaled by the factor x exceeds the cap.
Exceeds(i, x, cap) == FLt(IntToDouble(cap), FMul(IntToDouble(i), x))

\* C16: a scale run whose factors passed their validation and whose scaled
\* width exceeds 1920, or scaled height 1080, fails with the
\* output-too-large error and writes nothing; so every scale run that
\* derives its descriptor has a width of at most 1920 and a height of at
\* most 1080.
OutputCapped ==
    /\ (/\ ScaleParsed
        /\ err \notin {ErrBadScalar, ErrSameWay, ErrNonPositive}
        /\ (\/ Exceeds(c.iF.width, c.sArgs.wScale, 1920)
            \/ Exceeds(c.iF.height, c.sArgs.hScale, 1080)))
       => /\ err = ErrTooLarge
          /\ "TrySetPgmInfo" \notin done
          /\ out = <<>>
          /\ result \in {"", "failure"}
    /\ (cmd.op \in {"--scaleNn", "--scaleBl"} /\ "TrySetPgmInfo" \in done)
       => (c.oF.width <= 1920 /\ c.oF.height <= 1080)

\* The ASCII body laid out for the calls of getData after the lo-th up to
\* the hi-th: each sample in decimal, followed by a newline when it is the
\* last of its row and by a space otherwise.
RECURSIVE LaidOut(_, _, _, _)
LaidOut(cs, width, lo, hi) ==
    IF hi <= lo THEN <<>>
    ELSE IF hi = lo + 1
    THEN Dec(cs[hi][3]) \o (IF cs[hi][2] = width - 1 THEN <<10>> ELSE <<32>>)
    ELSE LaidOut(cs, width, lo, (lo + hi) \div 2)
         \o LaidOut(cs, width, (lo + hi) \div 2, hi)

\* The bytes written after the header.
BodyWritten == SubSeq(out, Len(WritePgmInfo(c.oF)) + 1, Len(out))

\* C17: the ASCII body written for a descriptor of width at least 1 is, row
\* by row, the samples in decimal separated by one space, with no space
\* before the first sample of a row and a newline after the last.
AsciiLayout ==
    (/\ "WritePgmData" \in done
     /\ c.oF.type = P2
     /\ c.oF.width >= 1
     /\ c.oF.height >= 1)
    => /\ Len(calls) = c.oF.width * c.oF.height
       /\ BodyWritten = LaidOut(calls, c.oF.width, 0, Len(calls))

\* The header of a BINARY output of the given size that carries the
\* maxValue max.
BinaryHeader(width, height, max) ==
    <<80, 53, 10>> \o Comment \o <<10>> \o Dec(width) \o <<32>>
        \o Dec(height) \o <<10>> \o Dec(max) \o <<10>>

\* C18: a BINARY output of a descriptor whose sizes are not negative has a
\* body of exactly width * height bytes, the k-th of them the value of the
\* k-th cell in row-major order modulo 256, and its header carries the
\* maxValue read from the input (on the first run, the maxValue of the input
\* file) unchanged.
BinaryEncoding ==
    (/\ "WritePgmData" \in done
     /\ c.oF.type = P5
     /\ c.oF.width >= 0
     /\ c.oF.height >= 0)
    => /\ Len(calls) = c.oF.width * c.oF.height
       /\ Len(out) >= Len(BinaryHeader(c.oF.width, c.oF.height, c.iF.maxDataValue))
       /\ SubSeq(out, 1, Len(BinaryHeader(c.oF.width, c.oF.height, c.iF.maxDataValue)))
              = BinaryHeader(c.oF.width, c.oF.height, c.iF.maxDataValue)
       /\ run = 1 => c.iF.maxDataValue = given.maxValue
       /\ Len(BodyWritten) = c.oF.width * c.oF.height
       /\ \A k \in 1..Len(calls) :
              /\ calls[k][1] = (k - 1) \div c.oF.width
              /\ calls[k][2] = (k - 1) % c.oF.width
              /\ BodyWritten[k] = calls[k][3] % 256

\* The row of 300 and 256 under the maxValue 1000 is written in BINARY as
\* the bytes 44 and 0 under the maxValue 1000.
TruncatedSamples ==
    /\ run = 1
    /\ given.kind = "deep"
    /\ cmd.op = "--P2toP5"
    /\ "WritePgmData" \in done
    /\ c.oF.type = P5
    /\ c.oF.maxDataValue = 1000
    /\ calls = <<<<0, 0, 300>>, <<0, 1, 256>>>>
    /\ BodyWritten = <<44, 0>>

\* C19: a nearest-neighbour request always uses GetScaledNnData; a bilinear
\* request whose text gives two strictly positive factors on the same side
\* of 1 uses GetScaledUpBlData when both are at least 1 (both exactly 1
\* included) and GetScaledDownBoxData otherwise (one factor 1 and the other
\* below 1 included), and every cell written is the value of that function
\* (under one of the values a read outside the array may yield).
FamilySelection ==
    /\ cmd.op = "--scaleNn" => c.cArgs.getData = "GetScaledNnData"
    /\ (/\ ScaleParsed
        /\ cmd.op = "--scaleBl"
        /\ GrammarScale(cmd.scale).ok
        /\ Positive(GrammarScale(cmd.scale).wScale)
        /\ Positive(GrammarScale(cmd.scale).hScale)
        /\ SameSide(GrammarScale(cmd.scale).wScale,
                    GrammarScale(cmd.scale).hScale))
       => LET w == GrammarScale(cmd.scale).wScale
              h == GrammarScale(cmd.scale).hScale
              up == FLe(IntToDouble(1), w) /\ FLe(IntToDouble(1), h)
          IN /\ c.cArgs.getData = IF up THEN "GetScaledUpBlData"
                                  ELSE "GetScaledDownBoxData"
             /\ "WritePgmData" \in done
                => \E u \in JunkVals :
                     LET cc == [c EXCEPT !.junk = u]
                     IN \A k \in 1..Len(calls) :
                          calls[k][3] =
                            IF up
                            THEN GetScaledUpBlData(cc, calls[k][1], calls[k][2])
                            ELSE GetScaledDownBoxData(cc, calls[k][1],
                                                      calls[k][2])

\* A bilinear request for the width factor 1 and the height factor 1/2 has
\* written its output with GetScaledDownBoxData.
UnitAndHalfBoxedDown ==
    /\ run = 1
    /\ cmd.op = "--scaleBl"
    /\ cmd.scale = <<49, 120, 46, 53>>
    /\ given.kind = "grid"
    /\ "WritePgmData" \in done
    /\ c.cArgs.getData = "GetScaledDownBoxData"
    /\ Len(calls) > 0

\* C20: every cell that GetScaledUpBlData subscripts for a cell of the
\* output lies in the raster of the input: its row in [0, height) and its
\* column in [0, width).
BilinearUpReadsInRaster ==
    (/\ cmd.op = "--scaleBl"
     /\ "WritePgmData" \in done
     /\ c.cArgs.getData = "GetScaledUpBlData")
    => \A k \in 1..Len(calls) :
         \A p \in GetScaledUpBlReads(c, calls[k][1], calls[k][2]) :
           /\ 0 <= p[1] /\ p[1] < c.iF.height
           /\ 0 <= p[2] /\ p[2] < c.iF.width

\* C21: once WritePgmData has run for a descriptor whose sizes are not
\* negative, getData has been called width * height times, the k-th call
\* for the k-th cell of the output in row-major order.
OncePerCell ==
    (/\ "WritePgmData" \in done
     /\ c.oF.width >= 0
     /\ c.oF.height >= 0)
    => /\ Len(calls) = c.oF.width * c.oF.height
       /\ \A k \in 1..Len(calls) :
              /\ calls[k][1] = (k - 1) \div c.oF.width
              /\ calls[k][2] = (k - 1) % c.oF.width

\* C22: in a bilinear run, once TrySetPgmInfo has returned true the pixel
\* function is GetScaledUpBlData or GetScaledDownBoxData, WritePgmData
\* never calls an unset one, and a text of the grammar whose factors are
\* neither both at least 1 nor both at most 1 fails one of the two range
\* checks.
PixelFunctionSelected ==
    cmd.op = "--scaleBl"
    => /\ "TrySetPgmInfo" \in done
          => c.cArgs.getData \in {"GetScaledUpBlData", "GetScaledDownBoxData"}
       /\ result # "crash"
       /\ (/\ ScaleParsed
           /\ GrammarScale(cmd.scale).ok
           /\ ~SameSide(GrammarScale(cmd.scale).wScale,
                        GrammarScale(cmd.scale).hScale))
          => /\ err \in {ErrSameWay, ErrNonPositive}
             /\ "TrySetPgmInfo" \notin done

\* The body of the ASCII file f holds exactly width * height tokens, each
\* the decimal numeral of an integer in [0, maxValue].
ExactAsciiBody(f) ==
    /\ f.magic = MagicP2
    /\ f.width >= 1
    /\ f.height >= 1
    /\ Len(Tokens(f.body, 0)) = f.width * f.height
    /\ \A k \in 1..Len(Tokens(f.body, 0)) :
          /\ IsDecimal(Tokens(f.body, 0)[k])
          /\ DecimalValue(Tokens(f.body, 0)[k]) \in 0..f.maxValue
          /\ Tokens(f.body, 0)[k] = Dec(DecimalValue(Tokens(f.body, 0)[k]))

\* C23: an ASCII body of exactly width * height in-range decimal numerals
\* is decoded with success, white space after the last numeral or none, and
\* the last numeral is stored in the last cell of the raster.
ExactBodyDecoded ==
    (/\ BodyDecoded
     /\ ExactAsciiBody(given))
    => /\ "TryReadPgmData" \in done
       /\ err # ErrCorrupted
       /\ dataCount = given.width * given.height
       /\ <<given.height - 1, given.width - 1>> \in stores
       /\ Cell(c, given.height - 1, given.width - 1)
            = DecimalValue(Tokens(given.body, 0)[given.width * given.height])

====
